---- MODULE Spec2Model ----
(***************************************************************************)
(* Model of dev/bus/pci/bus_mgr/bridge.cpp: the bridge probe state machine *)
(* (bridge::probe) and the address-window decoders (bridge::io_range,      *)
(* bridge::mem_range, bridge::prefetch_range).                             *)
(*                                                                         *)
(* Unsigned 32 and 64 bit values are bit vectors: functions from the bit   *)
(* index (0 = least significant) to {0,1}.  The 8 and 16 bit configuration *)
(* fields are plain integers.                                              *)
(***************************************************************************)
EXTENDS Integers, Sequences, FiniteSets, TLC

\* ------------------------------------------------------------------ bounds
\* secondary bus numbers range over 0..MaxSecondary
MaxSecondary == 2
\* subordinate bus numbers range over 0..MaxSubordinate
MaxSubordinate == 5
\* number of bridge::probe calls in one enumeration pass
MaxProbes == 2
\* raw window fields: bits 4..15 range over 0..MaxHi and the top two values
MaxHi == 2
\* raw window fields: the low nibble ranges over 0..MaxNib and 15
MaxNib == 2
\* upper-extension registers: low half ranges over 0..MaxUpper
MaxUpper == 1
\* bridge::probe activations that fit on the stack of a recursive enumeration
MaxDepth == 3
\* device numbers a bus scan walks: 0..MaxDev
MaxDev == 1

\* --------------------------------------------------------------- constants
NO_ERROR == 0
ERR_NOT_FOUND == -2
ERR_IO == -20
\* the vendor id an empty slot reads as
VENDOR_ABSENT == 65535
nullptr == 0
\* what the caller's out pointer holds before the call
STALE == -1

\* -------------------------------------------------------------- bit vectors
\* the w-bit unsigned value of the integer x, 0 <= x < 2^30
ToBits(x, w) == [i \in 0..(w - 1) |-> IF i < 30 THEN (x \div (2 ^ i)) % 2 ELSE 0]

\* conversion of an unsigned value to w bits (zero extension or truncation)
Cast(v, w) == [i \in 0..(w - 1) |-> IF i \in DOMAIN v THEN v[i] ELSE 0]

\* v >> n
Shr(v, n) == [i \in DOMAIN v |-> IF (i + n) \in DOMAIN v THEN v[i + n] ELSE 0]

\* v << n, bits shifted past the width are lost
Shl(v, n) == [i \in DOMAIN v |-> IF (i - n) \in DOMAIN v THEN v[i - n] ELSE 0]

\* a | b
BitOr(a, b) == [i \in DOMAIN a |-> IF a[i] = 1 \/ b[i] = 1 THEN 1 ELSE 0]

\* a & b
BitAnd(a, b) == [i \in DOMAIN a |-> IF a[i] = 1 /\ b[i] = 1 THEN 1 ELSE 0]

\* unsigned a < b
BitLess(a, b) ==
    \E i \in DOMAIN a :
        /\ a[i] < b[i]
        /\ \A j \in DOMAIN a : j > i => a[j] = b[j]

\* a 32-bit register from its two 16-bit halves
Word32(hi, lo) == [i \in 0..31 |-> IF i < 16 THEN (lo \div (2 ^ i)) % 2
                                   ELSE (hi \div (2 ^ (i - 16))) % 2]

\* --------------------------------------------------------- window decoders
Range(b, l) == [base |-> b, limit |-> l]

\* io_range without the 4 KiB fill of the limit
io_rangeNoFill(cfg) ==
    IF cfg.io_limit < cfg.io_base
    THEN Range(ToBits(0, 32), ToBits(0, 32))
    ELSE Range(Shl(Shr(ToBits(cfg.io_base, 32), 4), 12),
               Shl(Shr(ToBits(cfg.io_limit, 32), 4), 12))

\* io_range comparing the fields with their low nibble dropped
io_rangeDecodedCompare(cfg) ==
    IF (cfg.io_limit \div 16) < (cfg.io_base \div 16)
    THEN Range(ToBits(0, 32), ToBits(0, 32))
    ELSE Range(Shl(Shr(ToBits(cfg.io_base, 32), 4), 12),
               BitOr(Shl(Shr(ToBits(cfg.io_limit, 32), 4), 12), ToBits(4095, 32)))

\* io_range shifting the raw field without dropping its low nibble
io_rangeNoMask(cfg) ==
    IF cfg.io_limit < cfg.io_base
    THEN Range(ToBits(0, 32), ToBits(0, 32))
    ELSE Range(Shl(ToBits(cfg.io_base, 32), 8),
               BitOr(Shl(ToBits(cfg.io_limit, 32), 8), ToBits(4095, 32)))

io_range(cfg) ==
    IF cfg.io_limit < cfg.io_base
    THEN Range(ToBits(0, 32), ToBits(0, 32))
    ELSE Range(Shl(Shr(ToBits(cfg.io_base, 32), 4), 12),
               BitOr(Shl(Shr(ToBits(cfg.io_limit, 32), 4), 12), ToBits(4095, 32)))

\* mem_range shifting to 64 KiB instead of 1 MiB granularity
mem_rangeShift16(cfg) ==
    IF cfg.memory_limit < cfg.memory_base
    THEN Range(ToBits(0, 32), ToBits(0, 32))
    ELSE Range(Shl(Shr(ToBits(cfg.memory_base, 32), 4), 16),
               BitOr(Shl(Shr(ToBits(cfg.memory_limit, 32), 4), 16), ToBits(1048575, 32)))

mem_range(cfg) ==
    IF cfg.memory_limit < cfg.memory_base
    THEN Range(ToBits(0, 32), ToBits(0, 32))
    ELSE Range(Shl(Shr(ToBits(cfg.memory_base, 32), 4), 20),
               BitOr(Shl(Shr(ToBits(cfg.memory_limit, 32), 4), 20), ToBits(1048575, 32)))

\* is_64 testing bit 0 of the base field only
is_64Bit0(cfg) ==
    BitAnd(ToBits(cfg.prefetchable_memory_base, 32), ToBits(1, 32)) = ToBits(1, 32)

is_64(cfg) ==
    BitAnd(ToBits(cfg.prefetchable_memory_base, 32), ToBits(15, 32)) = ToBits(1, 32)

prefetch_range(cfg) ==
    IF cfg.prefetchable_memory_limit < cfg.prefetchable_memory_base
    THEN Range(ToBits(0, 64), ToBits(0, 64))
    ELSE LET base0 == Shl(Shr(ToBits(cfg.prefetchable_memory_base, 64), 4), 20)
             base == IF is_64(cfg)
                     THEN BitOr(base0, Shl(Cast(cfg.prefetchable_base_upper, 64), 32))
                     ELSE base0
             limit0 == BitOr(Shl(Shr(ToBits(cfg.prefetchable_memory_limit, 64), 4), 20),
                             ToBits(1048575, 64))
             limit == IF is_64(cfg)
                      THEN BitOr(limit0, Shl(Cast(cfg.prefetchable_limit_upper, 64), 32))
                      ELSE limit0
         IN  Range(base, limit)

\* ------------------------------------------------- configuration contents
\* the type-1 fields the bridge code reads
Type1(sec, sub, iob, iol, mb, ml, pb, pl, pbu, plu) ==
    [secondary_bus |-> sec, subordinate_bus |-> sub,
     io_base |-> iob, io_limit |-> iol,
     memory_base |-> mb, memory_limit |-> ml,
     prefetchable_memory_base |-> pb, prefetchable_memory_limit |-> pl,
     prefetchable_base_upper |-> pbu, prefetchable_limit_upper |-> plu]

\* the configuration of a freshly constructed bridge, before it is read
ZeroConfig == Type1(0, 0, 0, 0, 0, 0, 0, 0, Word32(0, 0), Word32(0, 0))

\* window register contents used while exercising the probe:
\* all zero; closed windows (limit < base); open windows, the prefetchable
\* one 64-bit
WindowFixtures ==
    { Type1(0, 0, 0, 0, 0, 0, 0, 0, Word32(0, 0), Word32(0, 0)),
      Type1(0, 0, 240, 0, 65520, 16, 65521, 1, Word32(0, 0), Word32(0, 0)),
      Type1(0, 0, 17, 33, 32, 32, 4097, 8177, Word32(0, 1), Word32(0, 2)) }

ProbeConfigs ==
    { [w EXCEPT !.secondary_bus = sec, !.subordinate_bus = sub] :
        w \in WindowFixtures, sec \in 0..MaxSecondary, sub \in 0..MaxSubordinate }

\* raw 16-bit base/limit register values
RawVals == { hi * 16 + nib : hi \in (0..MaxHi) \cup {4094, 4095},
                             nib \in (0..MaxNib) \cup {15} }

\* raw 32-bit upper-extension register values
UpperVals == { Word32(0, lo) : lo \in 0..MaxUpper } \cup { Word32(65535, 65535) }

\* the registers of the windows that are not being varied
Background == Type1(0, 0, 17, 33, 32, 32, 4097, 8177, Word32(0, 1), Word32(0, 2))

\* configurations used while exercising the decoders: one window ranges over
\* the raw values, the other registers are those of Background
DecodeConfigs ==
    { [Background EXCEPT !.io_base = b, !.io_limit = l] :
        b \in RawVals, l \in RawVals }
    \cup
    { [Background EXCEPT !.memory_base = b, !.memory_limit = l] :
        b \in RawVals, l \in RawVals }
    \cup
    { [Background EXCEPT !.prefetchable_memory_base = b,
                         !.prefetchable_memory_limit = l,
                         !.prefetchable_base_upper = bu,
                         !.prefetchable_limit_upper = lu] :
        b \in RawVals, l \in RawVals, bu \in UpperVals, lu \in UpperVals }

HeaderTypes == {0, 1}

\* an empty slot reads as all ones
EmptySlot ==
    [vendor_id |-> VENDOR_ABSENT, header_type |-> 255,
     config |-> Type1(255, 255, 65535, 65535, 65535, 65535, 65535, 65535,
                      Word32(65535, 65535), Word32(65535, 65535))]

\* what the probed location holds: a device, or nothing
Devices ==
    [vendor_id : {32902}, header_type : HeaderTypes, config : ProbeConfigs]
    \cup {EmptySlot}

Segments == {0, 1}

Locations == { [segment |-> s, bus |-> 0, dev |-> 1, fn |-> 0] : s \in Segments }

\* status_t values the collaborators return: success or a negative error
Statuses == {NO_ERROR, ERR_NOT_FOUND, ERR_IO}

\* ------------------------------------------------------------------- state
VARIABLES
    hw,           \* the device at loc: vendor id, header type, type-1 registers
    loc,          \* the probed location (argument)
    pc,           \* position in bridge::probe
    vendor_id,    \* local; -1 before it is read
    header_type,  \* local; -1 before it is read
    br,           \* local pointer to the allocated bridge, nullptr when none
    brObj,        \* the bridge object br points to
    out_bridge,   \* *out_bridge
    new_bus,      \* local pointer set by bus::probe
    buses,        \* bus objects created by bus::probe, by pointer (index)
    registry,     \* the global bus list: pointers in insertion order
    status,       \* the status bridge::probe returned
    trace,        \* collaborator calls made by the current probe, in order
    rng,          \* the result of the last range accessor call
    nProbes,      \* probes started in this pass
    space,        \* the configuration space a recursive enumeration walks
    stack         \* the suspended callers of the running bridge::probe

vars == <<hw, loc, pc, vendor_id, header_type, br, brObj, out_bridge, new_bus,
          buses, registry, status, trace, rng, nProbes, space, stack>>

NoObject == [live |-> FALSE]
NoRange == [fn |-> "none"]

Ev(op, arg, st) == [op |-> op, arg |-> arg, st |-> st]

\* the call bus::probe(l, parent, &new_bus)
EvScan(l, parent, st) == [op |-> "bus_probe", arg |-> l, st |-> st, parent |-> parent]

\* state at entry of bridge::probe(l, parent_bus, &out)
Entry(d, l, stale) ==
    /\ hw = d
    /\ loc = l
    /\ pc = "start"
    /\ vendor_id = -1
    /\ header_type = -1
    /\ br = nullptr
    /\ brObj = NoObject
    /\ out_bridge = stale
    /\ new_bus = nullptr
    /\ status = NO_ERROR
    /\ trace = <<>>
    /\ rng = NoRange

Init ==
    /\ \E d \in Devices, l \in Locations, stale \in {nullptr, STALE} : Entry(d, l, stale)
    /\ buses = <<>>
    /\ registry = <<>>
    /\ nProbes = 1
    /\ space = <<>>
    /\ stack = <<>>

Return(st) == pc' = "done" /\ status' = st

\* Absent testing for zero instead of all ones
AbsentZero(v) == v = 0

\* the vendor id of an empty slot (line 46)
Absent(v) == v = VENDOR_ABSENT

\* lines 38-48
ReadVendorId ==
    /\ pc = "start"
    /\ out_bridge' = nullptr
    /\ \E err \in Statuses :
        /\ trace' = Append(trace, Ev("read_vendor_id", 0, err))
        /\ IF err # NO_ERROR
           THEN Return(ERR_NOT_FOUND) /\ vendor_id' = vendor_id
           ELSE /\ vendor_id' = hw.vendor_id
                /\ IF Absent(hw.vendor_id)
                   THEN Return(ERR_NOT_FOUND)
                   ELSE pc' = "header" /\ status' = status
    /\ UNCHANGED <<space, stack, hw, loc, header_type, br, brObj, new_bus, buses, registry, rng, nProbes>>

\* ReadHeaderType handing the read's own error to the caller
ReadHeaderTypePropagate ==
    /\ pc = "header"
    /\ \E err \in Statuses :
        /\ trace' = Append(trace, Ev("read_header_type", 0, err))
        /\ IF err # NO_ERROR
           THEN Return(err) /\ header_type' = header_type
           ELSE header_type' = hw.header_type /\ pc' = "alloc" /\ status' = status
    /\ UNCHANGED <<space, stack, hw, loc, vendor_id, br, brObj, out_bridge, new_bus, buses, registry,
                   rng, nProbes>>

\* ReadHeaderType rejecting a header that is not type 1
ReadHeaderTypeChecked ==
    /\ pc = "header"
    /\ \E err \in Statuses :
        /\ trace' = Append(trace, Ev("read_header_type", 0, err))
        /\ IF err # NO_ERROR
           THEN Return(ERR_NOT_FOUND) /\ header_type' = header_type
           ELSE /\ header_type' = hw.header_type
                /\ IF hw.header_type # 1
                   THEN Return(ERR_NOT_FOUND)
                   ELSE pc' = "alloc" /\ status' = status
    /\ UNCHANGED <<space, stack, hw, loc, vendor_id, br, brObj, out_bridge, new_bus, buses, registry,
                   rng, nProbes>>

\* lines 50-55
ReadHeaderType ==
    /\ pc = "header"
    /\ \E err \in Statuses :
        /\ trace' = Append(trace, Ev("read_header_type", 0, err))
        /\ IF err # NO_ERROR
           THEN Return(ERR_NOT_FOUND) /\ header_type' = header_type
           ELSE header_type' = hw.header_type /\ pc' = "alloc" /\ status' = status
    /\ UNCHANGED <<space, stack, hw, loc, vendor_id, br, brObj, out_bridge, new_bus, buses, registry,
                   rng, nProbes>>

\* line 58 (and the constructor, line 30)
NewBridge ==
    /\ pc = "alloc"
    /\ br' = nProbes
    /\ brObj' = [live |-> TRUE, loc_ |-> loc, config_ |-> ZeroConfig,
                 secondary_bus_ |-> nullptr]
    /\ trace' = Append(trace, Ev("new_bridge", nProbes, NO_ERROR))
    /\ pc' = "config"
    /\ UNCHANGED <<space, stack, hw, loc, vendor_id, header_type, out_bridge, new_bus, buses, registry,
                   status, rng, nProbes>>

\* ConfigReadFailed with the sign of the test reversed
ConfigReadFailedSignSlip(err) == err > 0

\* the test of line 62
ConfigReadFailed(err) == err < 0

\* ReadConfig reading again after a failed read
ReadConfigRetry ==
    /\ pc = "config"
    /\ \E err \in Statuses :
        IF ConfigReadFailed(err)
        THEN /\ trace' = Append(trace, Ev("read_config", br, err))
             /\ UNCHANGED <<brObj, pc, status>>
        ELSE /\ trace' = Append(trace, Ev("read_config", br, err))
             /\ brObj' = [brObj EXCEPT !.config_ = hw.config]
             /\ pc' = "caps"
             /\ status' = status
    /\ UNCHANGED <<space, stack, hw, loc, vendor_id, header_type, br, out_bridge,
                   new_bus, buses, registry, rng, nProbes>>

\* lines 61-65
ReadConfig ==
    /\ pc = "config"
    /\ \E err \in Statuses :
        IF ConfigReadFailed(err)
        THEN /\ trace' = trace \o <<Ev("read_config", br, err), Ev("delete_bridge", br, NO_ERROR)>>
             /\ brObj' = NoObject
             /\ Return(err)
        ELSE /\ trace' = Append(trace, Ev("read_config", br, err))
             /\ brObj' = [brObj EXCEPT !.config_ = hw.config]
             /\ pc' = "caps"
             /\ status' = status
    /\ UNCHANGED <<space, stack, hw, loc, vendor_id, header_type, br, out_bridge, new_bus, buses,
                   registry, rng, nProbes>>

\* ProbeCapabilities giving up on the bridge when the capability walk fails
ProbeCapabilitiesFatal ==
    /\ pc = "caps"
    /\ \E err \in Statuses :
        /\ trace' = Append(trace, Ev("probe_capabilities", br, err))
        /\ IF err < 0
           THEN brObj' = NoObject /\ Return(err)
           ELSE brObj' = brObj /\ pc' = "publish" /\ status' = status
    /\ UNCHANGED <<space, stack, hw, loc, vendor_id, header_type, br, out_bridge, new_bus, buses,
                   registry, rng, nProbes>>

\* line 71: the result of the capability walk is dropped
ProbeCapabilities ==
    /\ pc = "caps"
    /\ \E err \in Statuses : trace' = Append(trace, Ev("probe_capabilities", br, err))
    /\ pc' = "publish"
    /\ UNCHANGED <<space, stack, hw, loc, vendor_id, header_type, br, brObj, out_bridge, new_bus, buses,
                   registry, status, rng, nProbes>>

\* HasDownstream without the test of the subordinate bus number
HasDownstreamNoRange(cfg) == cfg.secondary_bus > 0

\* HasDownstream accepting secondary bus 0
HasDownstreamNonNegative(cfg) ==
    cfg.secondary_bus >= 0 /\ cfg.subordinate_bus >= cfg.secondary_bus

\* the condition of line 75
HasDownstream(cfg) ==
    cfg.secondary_bus > 0 /\ cfg.subordinate_bus >= cfg.secondary_bus

\* lines 73-75, and line 95 for a bridge with nothing downstream
Publish ==
    /\ pc = "publish"
    /\ out_bridge' = br
    /\ IF HasDownstream(brObj.config_)
       THEN pc' = "scan" /\ status' = status
       ELSE Return(NO_ERROR)
    /\ UNCHANGED <<space, stack, hw, loc, vendor_id, header_type, br, brObj, new_bus, buses, registry,
                   trace, rng, nProbes>>

\* BusLocation with the segment left at its zero initialisation
BusLocationNoSegment == [segment |-> 0, bus |-> brObj.config_.secondary_bus,
                         dev |-> 0, fn |-> 0]

\* lines 79-81
BusLocation == [segment |-> loc.segment, bus |-> brObj.config_.secondary_bus,
                dev |-> 0, fn |-> 0]

\* ScanFailed with the sign of the test reversed
ScanFailedSignSlip(err) == err > 0

\* the test of line 83
ScanFailed(err) == err < 0

\* lines 78-85
BusProbe ==
    /\ pc = "scan"
    /\ \E err \in Statuses :
        /\ trace' = Append(trace, EvScan(BusLocation, br, err))
        /\ IF ScanFailed(err)
           THEN /\ Return(err)
                /\ UNCHANGED <<new_bus, buses>>
           ELSE /\ buses' = Append(buses, [loc_ |-> BusLocation, bridge |-> br])
                /\ new_bus' = Len(buses) + 1
                /\ pc' = "add_bus"
                /\ status' = status
    /\ UNCHANGED <<space, stack, hw, loc, vendor_id, header_type, br, brObj, out_bridge, registry, rng,
                   nProbes>>

\* lines 88-89
AddBus ==
    /\ pc = "add_bus"
    /\ brObj' = [brObj EXCEPT !.secondary_bus_ = new_bus]
    /\ trace' = Append(trace, Ev("add_bus", new_bus, NO_ERROR))
    /\ pc' = "add_global"
    /\ UNCHANGED <<space, stack, hw, loc, vendor_id, header_type, br, out_bridge, new_bus, buses,
                   registry, status, rng, nProbes>>

\* AddToGlobalList returning without putting the bus on the list
AddToGlobalListSkip ==
    /\ pc = "add_global"
    /\ trace' = Append(trace, Ev("add_to_global_list", new_bus, NO_ERROR))
    /\ Return(NO_ERROR)
    /\ UNCHANGED <<space, stack, hw, loc, vendor_id, header_type, br, brObj, out_bridge, new_bus, buses,
                   registry, rng, nProbes>>

\* AddToGlobalList starting the list afresh
AddToGlobalListReset ==
    /\ pc = "add_global"
    /\ registry' = <<new_bus>>
    /\ trace' = Append(trace, Ev("add_to_global_list", new_bus, NO_ERROR))
    /\ Return(NO_ERROR)
    /\ UNCHANGED <<space, stack, hw, loc, vendor_id, header_type, br, brObj, out_bridge, new_bus, buses,
                   rng, nProbes>>

\* lines 92-95
AddToGlobalList ==
    /\ pc = "add_global"
    /\ registry' = Append(registry, new_bus)
    /\ trace' = Append(trace, Ev("add_to_global_list", new_bus, NO_ERROR))
    /\ Return(NO_ERROR)
    /\ UNCHANGED <<space, stack, hw, loc, vendor_id, header_type, br, brObj, out_bridge, new_bus, buses,
                   rng, nProbes>>

\* a caller reads a range of the bridge it was handed
Published == pc = "done" /\ out_bridge # nullptr /\ brObj.live

\* io_range storing the aligned base back into the bridge's configuration
CallIoRangeWriteBack ==
    /\ Published
    /\ rng' = [fn |-> "io_range", r |-> io_range(brObj.config_)]
    /\ brObj' = [brObj EXCEPT !.config_.io_base = (brObj.config_.io_base \div 16) * 16]
    /\ UNCHANGED <<space, stack, hw, loc, pc, vendor_id, header_type, br, out_bridge, new_bus,
                   buses, registry, status, trace, nProbes>>

CallIoRange ==
    /\ Published
    /\ rng' = [fn |-> "io_range", r |-> io_range(brObj.config_)]
    /\ UNCHANGED <<space, stack, hw, loc, pc, vendor_id, header_type, br, brObj, out_bridge, new_bus,
                   buses, registry, status, trace, nProbes>>

CallMemRange ==
    /\ Published
    /\ rng' = [fn |-> "mem_range", r |-> mem_range(brObj.config_)]
    /\ UNCHANGED <<space, stack, hw, loc, pc, vendor_id, header_type, br, brObj, out_bridge, new_bus,
                   buses, registry, status, trace, nProbes>>

CallPrefetchRange ==
    /\ Published
    /\ rng' = [fn |-> "prefetch_range", r |-> prefetch_range(brObj.config_)]
    /\ UNCHANGED <<space, stack, hw, loc, pc, vendor_id, header_type, br, brObj, out_bridge, new_bus,
                   buses, registry, status, trace, nProbes>>

\* the enumeration goes on to probe another location
NextProbe ==
    /\ pc = "done"
    /\ nProbes < MaxProbes
    /\ nProbes' = nProbes + 1
    /\ \E d \in Devices, l \in Locations :
        /\ hw' = d
        /\ loc' = l
        /\ pc' = "start"
        /\ vendor_id' = -1
        /\ header_type' = -1
        /\ br' = nullptr
        /\ brObj' = NoObject
        /\ out_bridge' = IF out_bridge = nullptr THEN nullptr ELSE STALE
        /\ new_bus' = nullptr
        /\ status' = NO_ERROR
        /\ trace' = <<>>
        /\ rng' = NoRange
    /\ UNCHANGED <<space, stack, buses, registry>>

Next ==
    \/ ReadVendorId
    \/ ReadHeaderType
    \/ NewBridge
    \/ ReadConfig
    \/ ProbeCapabilities
    \/ Publish
    \/ BusProbe
    \/ AddBus
    \/ AddToGlobalList
    \/ NextProbe

Spec == Init /\ [][Next]_vars

\* ------------------------------------------------ the decoders on their own
\* a bridge with nothing downstream, read and published without error
LeafTrace(b) ==
    <<Ev("read_vendor_id", 0, NO_ERROR), Ev("read_header_type", 0, NO_ERROR),
      Ev("new_bridge", b, NO_ERROR), Ev("read_config", b, NO_ERROR),
      Ev("probe_capabilities", b, NO_ERROR)>>

DecodeInit ==
    /\ loc = [segment |-> 0, bus |-> 0, dev |-> 1, fn |-> 0]
    /\ \E c \in DecodeConfigs :
        /\ hw = [vendor_id |-> 32902, header_type |-> 1, config |-> c]
        /\ brObj = [live |-> TRUE, loc_ |-> loc, config_ |-> c, secondary_bus_ |-> nullptr]
    /\ pc = "done"
    /\ vendor_id = 32902
    /\ header_type = 1
    /\ br = 1
    /\ out_bridge = 1
    /\ new_bus = nullptr
    /\ buses = <<>>
    /\ registry = <<>>
    /\ status = NO_ERROR
    /\ trace = LeafTrace(1)
    /\ rng = NoRange
    /\ nProbes = 1
    /\ space = <<>>
    /\ stack = <<>>

DecodeNext ==
    \/ CallIoRange
    \/ CallMemRange
    \/ CallPrefetchRange

DecodeSpec == DecodeInit /\ [][DecodeNext]_vars

\* ------------------------------------------------ recursive enumeration
\* bridge::probe with bus::probe walking the secondary bus and calling
\* bridge::probe for every bridge it finds there

\* a bridge whose windows are all zero
BridgeDevice(sec, sub) ==
    [vendor_id |-> 32902, header_type |-> 1,
     config |-> [ZeroConfig EXCEPT !.secondary_bus = sec, !.subordinate_bus = sub]]

RecBuses == {0, 1, 2}
RecSlots == RecBuses \X (0..MaxDev)

\* the slots that may hold a bridge; the root bridge sits at bus 0, device 0
PopulatedSlots == {<<0, 0>>, <<1, 0>>, <<1, 1>>, <<2, 0>>}

RecDevices == {EmptySlot} \cup { BridgeDevice(sec, 2) : sec \in RecBuses }

\* the second device of bus 1 is a sibling of the bridge at device 0: absent or
\* a bridge without a downstream bus
RecSpaces ==
    { sp \in [RecSlots -> RecDevices] :
        /\ \A sl \in RecSlots \ PopulatedSlots : sp[sl] = EmptySlot
        /\ sp[<<1, 1>>] \in {EmptySlot, BridgeDevice(0, 2)} }

RootLocation == [segment |-> 0, bus |-> 0, dev |-> 0, fn |-> 0]

RecInit ==
    /\ space \in RecSpaces
    /\ Entry(space[<<0, 0>>], RootLocation, STALE)
    /\ buses = <<>>
    /\ registry = <<>>
    /\ nProbes = 1
    /\ stack = <<>>

\* the locals of the running bridge::probe, kept while bus::probe runs
BridgeFrame ==
    [kind |-> "bridge", hw |-> hw, loc |-> loc, vendor_id |-> vendor_id,
     header_type |-> header_type, br |-> br, brObj |-> brObj,
     out_bridge |-> out_bridge, new_bus |-> new_bus, status |-> status,
     trace |-> trace]

\* the bus::probe activation: the bus being walked and the next device number
BusFrame(l, parent) == [kind |-> "bus", loc |-> l, slot |-> 0, parent |-> parent]

\* bridge::probe activations, the running one included
Depth == Cardinality({ i \in 1..Len(stack) : stack[i].kind = "bridge" }) + 1

\* line 82: the call of bus::probe
ScanEnter ==
    /\ pc = "scan"
    /\ Depth < MaxDepth
    /\ stack' = stack \o <<BridgeFrame, BusFrame(BusLocation, br)>>
    /\ pc' = "bus_scan"
    /\ UNCHANGED <<space, hw, loc, vendor_id, header_type, br, brObj, out_bridge, new_bus,
                   buses, registry, status, trace, rng, nProbes>>

\* bus::probe looks at the next device of the bus and probes it if it is a
\* bridge
ScanSlot ==
    /\ pc = "bus_scan"
    /\ stack[Len(stack)].slot <= MaxDev
    /\ stack' = [stack EXCEPT ![Len(stack)].slot = @ + 1]
    /\ LET top == stack[Len(stack)]
           d == space[<<top.loc.bus, top.slot>>]
           l == [segment |-> top.loc.segment, bus |-> top.loc.bus,
                 dev |-> top.slot, fn |-> 0]
       IN  IF d.vendor_id # VENDOR_ABSENT /\ d.header_type = 1
           THEN /\ hw' = d
                /\ loc' = l
                /\ pc' = "start"
                /\ vendor_id' = -1
                /\ header_type' = -1
                /\ br' = nullptr
                /\ brObj' = NoObject
                /\ out_bridge' = STALE
                /\ new_bus' = nullptr
                /\ status' = NO_ERROR
                /\ trace' = <<>>
                /\ nProbes' = nProbes + 1
           ELSE UNCHANGED <<hw, loc, pc, vendor_id, header_type, br, brObj, out_bridge,
                            new_bus, status, trace, nProbes>>
    /\ UNCHANGED <<space, buses, registry, rng>>

\* a bridge::probe called by bus::probe returns to it
ProbeReturn ==
    /\ pc = "done"
    /\ stack # <<>>
    /\ pc' = "bus_scan"
    /\ UNCHANGED <<space, stack, hw, loc, vendor_id, header_type, br, brObj, out_bridge,
                   new_bus, buses, registry, status, trace, rng, nProbes>>

\* bus::probe has walked the bus and returns; lines 82-85 of the caller
ScanReturn ==
    /\ pc = "bus_scan"
    /\ stack[Len(stack)].slot > MaxDev
    /\ LET top == stack[Len(stack)]
           f == stack[Len(stack) - 1]
       IN  /\ stack' = SubSeq(stack, 1, Len(stack) - 2)
           /\ hw' = f.hw
           /\ loc' = f.loc
           /\ vendor_id' = f.vendor_id
           /\ header_type' = f.header_type
           /\ br' = f.br
           /\ brObj' = f.brObj
           /\ out_bridge' = f.out_bridge
           /\ \E err \in Statuses :
                /\ trace' = Append(f.trace, EvScan(top.loc, top.parent, err))
                /\ IF ScanFailed(err)
                   THEN /\ Return(err)
                        /\ new_bus' = f.new_bus
                        /\ buses' = buses
                   ELSE /\ buses' = Append(buses, [loc_ |-> top.loc, bridge |-> f.br])
                        /\ new_bus' = Len(buses) + 1
                        /\ pc' = "add_bus"
                        /\ status' = f.status
    /\ UNCHANGED <<space, registry, rng, nProbes>>

RecNext ==
    \/ ReadVendorId
    \/ ReadHeaderType
    \/ NewBridge
    \/ ReadConfig
    \/ ProbeCapabilities
    \/ Publish
    \/ ScanEnter
    \/ ScanSlot
    \/ ProbeReturn
    \/ ScanReturn
    \/ AddBus
    \/ AddToGlobalList

\* the enumeration is synchronous: a step that can be taken is taken
RecSpec == RecInit /\ [][RecNext]_vars /\ WF_vars(RecNext)

\* the outermost bridge::probe has returned
RecDone == pc = "done" /\ stack = <<>>

\* ------------------------------------------------------------- properties
\* the calls of the current probe to collaborator op
Events(op) == { i \in 1..Len(trace) : trace[i].op = op }
Called(op) == Events(op) # {}
Succeeded(op) == \E i \in Events(op) : trace[i].st = NO_ERROR
Failed(op) == \E i \in Events(op) : trace[i].st < 0

Zero32 == [i \in 0..31 |-> 0]
Zero64 == [i \in 0..63 |-> 0]
Empty32 == [base |-> Zero32, limit |-> Zero32]
Empty64 == [base |-> Zero64, limit |-> Zero64]

\* bit i of a 16-bit register value
Bit(x, i) == (x \div (2 ^ i)) % 2

Config == brObj.config_

\* C1: when the configuration read succeeded, the downstream condition holds
\* and the scan of the secondary bus failed, probe returns the scan's error,
\* the returned bridge is non-null and live with no secondary bus, and its
\* decoded ranges are those of the device's registers, as after a scan that
\* succeeded.
PartialSuccess ==
    (pc = "done" /\ Succeeded("read_config") /\ HasDownstream(hw.config)
        /\ Failed("bus_probe"))
    => /\ status < 0
       /\ \E i \in Events("bus_probe") : trace[i].st = status
       /\ out_bridge # nullptr
       /\ out_bridge = br
       /\ brObj.live
       /\ brObj.secondary_bus_ = nullptr
       /\ io_range(Config) = io_range(hw.config)
       /\ mem_range(Config) = mem_range(hw.config)
       /\ prefetch_range(Config) = prefetch_range(hw.config)

PartialSuccessWitness ==
    /\ pc = "done"
    /\ Succeeded("read_config")
    /\ Failed("bus_probe")
    /\ status = ERR_IO
    /\ out_bridge # nullptr
    /\ brObj.live
    /\ Config.io_base = 17
    /\ io_range(Config) # Empty32

\* C2: once the vendor id has been read as 0xffff, probe has returned
\* ERR_NOT_FOUND with a null bridge, no bridge was allocated and the vendor
\* id read is the only call that was made.
PresenceCheck ==
    vendor_id = VENDOR_ABSENT
    => /\ pc = "done"
       /\ status = ERR_NOT_FOUND
       /\ out_bridge = nullptr
       /\ br = nullptr
       /\ ~brObj.live
       /\ Len(trace) = 1
       /\ trace[1].op = "read_vendor_id"

PresenceCheckWitness ==
    /\ vendor_id = VENDOR_ABSENT
    /\ pc = "done"
    /\ status = ERR_NOT_FOUND
    /\ nProbes = 2

\* C3: when probe has returned, the returned bridge is non-null exactly when
\* the full configuration read succeeded; when that read failed the bridge
\* was deleted, the returned pointer is null, the read's error is returned,
\* and neither the capability probe nor the bus scan was called.
NeverPartiallyRead ==
    pc = "done"
    => /\ (out_bridge # nullptr) <=> Succeeded("read_config")
       /\ out_bridge # nullptr => brObj.live /\ Config = hw.config
       /\ Failed("read_config")
          => /\ ~brObj.live
             /\ Called("delete_bridge")
             /\ out_bridge = nullptr
             /\ \E i \in Events("read_config") : trace[i].st = status
             /\ ~Called("probe_capabilities")
             /\ ~Called("bus_probe")

NeverPartiallyReadWitness ==
    /\ pc = "done"
    /\ Failed("read_config")
    /\ status = ERR_IO
    /\ out_bridge = nullptr
    /\ Called("new_bridge")
    /\ ~brObj.live

\* C4: a bridge has a secondary bus only if the configuration read at
\* discovery succeeded with secondary bus > 0 and subordinate bus >=
\* secondary bus.
SecondaryBusOnlyIfRange ==
    (brObj.live /\ brObj.secondary_bus_ # nullptr)
    => /\ Succeeded("read_config")
       /\ hw.config.secondary_bus > 0
       /\ hw.config.subordinate_bus >= hw.config.secondary_bus

SecondaryBusOnlyIfRangeWitness ==
    /\ pc = "done"
    /\ brObj.live
    /\ brObj.secondary_bus_ # nullptr
    /\ hw.config.subordinate_bus = hw.config.secondary_bus

\* scenario A: vendor 0x8086, header type 1, secondary bus 2, subordinate
\* bus 5, all window registers zero
ScenarioA ==
    /\ hw.vendor_id = 32902
    /\ hw.header_type = 1
    /\ hw.config = [ZeroConfig EXCEPT !.secondary_bus = 2, !.subordinate_bus = 5]

\* every register read and the bus scan of the current probe succeeded
ReadsAndScanOk ==
    \A i \in 1..Len(trace) :
        trace[i].op # "probe_capabilities" => trace[i].st = NO_ERROR

\* C5 as stated: in scenario A the probe succeeds and the published bridge
\* decodes all three windows to {0,0}.
ScenarioAEmptyRanges ==
    (pc = "done" /\ ScenarioA /\ ReadsAndScanOk)
    => /\ status = NO_ERROR
       /\ out_bridge # nullptr
       /\ io_range(Config) = Empty32
       /\ mem_range(Config) = Empty32
       /\ prefetch_range(Config) = Empty64

\* C5 amended: in scenario A, with every read and the bus scan succeeding,
\* the probe succeeds, bus 2 is scanned, and the published bridge decodes
\* each window to its first granule: I/O {0, 0xfff}, memory {0, 0xfffff},
\* prefetchable {0, 0xfffff}.
ScenarioAFirstGranule ==
    (pc = "done" /\ ScenarioA /\ ReadsAndScanOk)
    => /\ status = NO_ERROR
       /\ out_bridge # nullptr
       /\ brObj.live
       /\ \E i \in Events("bus_probe") : trace[i].arg.bus = 2
       /\ io_range(Config) = [base |-> Zero32, limit |-> [i \in 0..31 |-> IF i < 12 THEN 1 ELSE 0]]
       /\ mem_range(Config) = [base |-> Zero32, limit |-> [i \in 0..31 |-> IF i < 20 THEN 1 ELSE 0]]
       /\ prefetch_range(Config) =
              [base |-> Zero64, limit |-> [i \in 0..63 |-> IF i < 20 THEN 1 ELSE 0]]

ScenarioAWitness ==
    /\ pc = "done"
    /\ ScenarioA
    /\ ReadsAndScanOk
    /\ status = NO_ERROR
    /\ out_bridge # nullptr
    /\ brObj.secondary_bus_ # nullptr

\* C6: an accessor called with raw limit < raw base (whole fields, low nibble
\* included, the upper-extension registers not looked at) returns {0,0}.
DegenerateRange ==
    /\ (rng.fn = "io_range" /\ Config.io_limit < Config.io_base) => rng.r = Empty32
    /\ (rng.fn = "mem_range" /\ Config.memory_limit < Config.memory_base)
       => rng.r = Empty32
    /\ (rng.fn = "prefetch_range"
            /\ Config.prefetchable_memory_limit < Config.prefetchable_memory_base)
       => rng.r = Empty64

DegenerateRangeWitness ==
    /\ rng.fn = "io_range"
    /\ Config.io_base = 31
    /\ Config.io_limit = 16
    /\ rng.r = Empty32

\* C7: no accessor returns a range whose limit is below its base.
NoNegativeWidth ==
    rng.fn # "none" => ~BitLess(rng.r.limit, rng.r.base)

\* C8: for a prefetchable window with raw base <= raw limit, bits 32..63 of
\* the decoded base and limit are the upper-extension registers when the low
\* nibble of the base field is 1 and zero otherwise; bits 20..31 are bits
\* 4..15 of the raw field, bits 0..19 are zero in the base and one in the
\* limit.
PrefetchExtension ==
    (rng.fn = "prefetch_range"
        /\ Config.prefetchable_memory_base <= Config.prefetchable_memory_limit)
    => LET wide == Config.prefetchable_memory_base % 16 = 1
       IN  /\ DOMAIN rng.r.base = 0..63
           /\ DOMAIN rng.r.limit = 0..63
           /\ \A i \in 32..63 :
                /\ rng.r.base[i] =
                     IF wide THEN Config.prefetchable_base_upper[i - 32] ELSE 0
                /\ rng.r.limit[i] =
                     IF wide THEN Config.prefetchable_limit_upper[i - 32] ELSE 0
           /\ \A i \in 20..31 :
                /\ rng.r.base[i] = Bit(Config.prefetchable_memory_base, i - 16)
                /\ rng.r.limit[i] = Bit(Config.prefetchable_memory_limit, i - 16)
           /\ \A i \in 0..19 : rng.r.base[i] = 0 /\ rng.r.limit[i] = 1

PrefetchExtensionWitness ==
    /\ rng.fn = "prefetch_range"
    /\ Config.prefetchable_memory_base = 17
    /\ Config.prefetchable_memory_limit = 65521
    /\ Config.prefetchable_base_upper = Word32(0, 1)
    /\ Config.prefetchable_limit_upper = Word32(65535, 65535)
    /\ rng.r.base[32] = 1
    /\ rng.r.limit[63] = 1

\* C9: for raw memory base b <= raw limit l, mem_range returns the 32-bit
\* values (b & 0xfff0) << 16 and ((l & 0xfff0) << 16) | 0xfffff: bits 20..31
\* are bits 4..15 of the raw field, bits 0..19 are zero in the base and one
\* in the limit, nothing is lost.
MemDecode ==
    (rng.fn = "mem_range" /\ Config.memory_base <= Config.memory_limit)
    => /\ DOMAIN rng.r.base = 0..31
       /\ DOMAIN rng.r.limit = 0..31
       /\ \A i \in 20..31 :
            /\ rng.r.base[i] = Bit(Config.memory_base, i - 16)
            /\ rng.r.limit[i] = Bit(Config.memory_limit, i - 16)
       /\ \A i \in 0..19 : rng.r.base[i] = 0 /\ rng.r.limit[i] = 1

MemDecodeWitness ==
    /\ rng.fn = "mem_range"
    /\ Config.memory_base = 65504
    /\ Config.memory_limit = 65535
    /\ rng.r.base[31] = 1
    /\ rng.r.base[20] = 0
    /\ rng.r.limit[20] = 1

\* C10: for raw I/O base b <= raw limit l, io_range returns the base
\* (b >> 4) << 12, whose low 12 bits are zero, and the limit (l >> 4) << 12
\* with its low 12 bits one: bits 12..23 are bits 4..15 of the raw field, and
\* bits 0..3 of the raw fields appear nowhere in the result.
IoDecode ==
    (rng.fn = "io_range" /\ Config.io_base <= Config.io_limit)
    => /\ DOMAIN rng.r.base = 0..31
       /\ DOMAIN rng.r.limit = 0..31
       /\ \A i \in 24..31 : rng.r.base[i] = 0 /\ rng.r.limit[i] = 0
       /\ \A i \in 12..23 :
            /\ rng.r.base[i] = Bit(Config.io_base, i - 8)
            /\ rng.r.limit[i] = Bit(Config.io_limit, i - 8)
       /\ \A i \in 0..11 : rng.r.base[i] = 0 /\ rng.r.limit[i] = 1

IoDecodeWitness ==
    /\ rng.fn = "io_range"
    /\ Config.io_base = 31
    /\ Config.io_limit = 47
    /\ rng.r.base[12] = 1
    /\ rng.r.base[13] = 0
    /\ rng.r.limit[13] = 1

\* C11: every accessor call returns the decode of the configuration as it was
\* read, whatever was called before, and a call changes nothing but the value
\* handed back: the bridge object (configuration, secondary bus), the device,
\* the bus objects and the registry stay as they were.
DecoderPurity ==
    /\ [](/\ rng.fn = "io_range" => rng.r = io_range(hw.config)
          /\ rng.fn = "mem_range" => rng.r = mem_range(hw.config)
          /\ rng.fn = "prefetch_range" => rng.r = prefetch_range(hw.config))
    /\ [][rng' # rng => /\ brObj' = brObj
                        /\ hw' = hw
                        /\ buses' = buses
                        /\ registry' = registry
                        /\ out_bridge' = out_bridge]_vars

DecoderPurityWitness ==
    /\ rng.fn = "io_range"
    /\ Config.io_base = 31
    /\ Config.io_limit = 47
    /\ Config = hw.config
    /\ rng.r # Empty32

\* the configuration of the device says there is nothing downstream
NoDownstreamRange ==
    hw.config.secondary_bus = 0 \/ hw.config.subordinate_bus < hw.config.secondary_bus

\* C12: when the configuration read succeeded and secondary bus = 0 or
\* subordinate bus < secondary bus, probe returns NO_ERROR with a non-null
\* bridge that has no secondary bus, bus::probe is never called, and no step
\* of the probe changes the registry.
LeafBridge ==
    /\ []((pc = "done" /\ Succeeded("read_config") /\ NoDownstreamRange)
          => /\ status = NO_ERROR
             /\ out_bridge # nullptr
             /\ out_bridge = br
             /\ brObj.live
             /\ brObj.secondary_bus_ = nullptr
             /\ ~Called("bus_probe")
             /\ ~Called("add_bus")
             /\ ~Called("add_to_global_list"))
    /\ [][(pc # "done" /\ NoDownstreamRange)
          => registry' = registry /\ buses' = buses]_vars

LeafBridgeWitness ==
    /\ pc = "done"
    /\ Succeeded("read_config")
    /\ hw.config.secondary_bus = 2
    /\ hw.config.subordinate_bus = 1
    /\ status = NO_ERROR
    /\ out_bridge # nullptr
    /\ Len(registry) = 1

\* C13: add_bus directly follows a bus::probe that succeeded and attaches the
\* bus it returned, add_to_global_list directly follows add_bus with the same
\* bus; after a failed scan neither is called; a scan that succeeded is
\* followed by both; and when probe has returned, the bridge has a secondary
\* bus exactly when this probe put that bus last on the registry.
LinkingOrder ==
    /\ \A i \in Events("add_bus") :
        /\ i > 1
        /\ trace[i - 1].op = "bus_probe"
        /\ trace[i - 1].st = NO_ERROR
        /\ trace[i].arg = new_bus
        /\ buses[new_bus].bridge = br
    /\ \A i \in Events("add_to_global_list") :
        /\ i > 1
        /\ trace[i - 1].op = "add_bus"
        /\ trace[i - 1].arg = trace[i].arg
    /\ Failed("bus_probe") => ~Called("add_bus") /\ ~Called("add_to_global_list")
    /\ (pc = "done" /\ Succeeded("bus_probe"))
       => Called("add_bus") /\ Called("add_to_global_list")
    /\ (pc = "done" /\ brObj.live)
       => (brObj.secondary_bus_ # nullptr
           <=> /\ Called("add_to_global_list")
               /\ Len(registry) > 0
               /\ registry[Len(registry)] = brObj.secondary_bus_)

LinkingOrderWitness ==
    /\ pc = "done"
    /\ nProbes = 2
    /\ Len(registry) = 2
    /\ brObj.secondary_bus_ = 2
    /\ registry[2] = 2
    /\ Len(trace) = 8

\* C15: once the capability probe has been called the bridge is never
\* discarded, and when probe has returned its outcome is that of the
\* configuration and the scan alone, whatever the capability walk returned:
\* the bridge is published with the configuration read, bus::probe was called
\* exactly when the downstream condition holds, and the status is the scan's
\* error or NO_ERROR.
CapabilityNonFatal ==
    Called("probe_capabilities")
    => /\ brObj.live
       /\ pc = "done"
          => /\ out_bridge # nullptr
             /\ out_bridge = br
             /\ Config = hw.config
             /\ Called("bus_probe") <=> ~NoDownstreamRange
             /\ Failed("bus_probe") => \E i \in Events("bus_probe") : trace[i].st = status
             /\ ~Failed("bus_probe") => status = NO_ERROR

CapabilityNonFatalWitness ==
    /\ pc = "done"
    /\ Failed("probe_capabilities")
    /\ status = NO_ERROR
    /\ out_bridge # nullptr
    /\ brObj.secondary_bus_ # nullptr

\* C16: every step leaves the buses already on the registry where they are:
\* the registry after a step starts with the registry before it.
RegistryMonotonic ==
    [][/\ Len(registry') >= Len(registry)
       /\ SubSeq(registry', 1, Len(registry)) = registry]_vars

RegistryMonotonicWitness ==
    /\ nProbes = 2
    /\ pc = "done"
    /\ Len(registry) = 1
    /\ Failed("bus_probe")
    /\ status = ERR_IO

\* a read of the vendor id or of the header type returned an error
PresenceReadError ==
    \E i \in Events("read_vendor_id") \cup Events("read_header_type") :
        trace[i].st # NO_ERROR

\* C17: when the vendor id read or the header type read returned an error,
\* probe has returned ERR_NOT_FOUND, whatever the error was, the returned
\* bridge is null, no bridge was allocated and the configuration was not read.
ReadErrorsNotFound ==
    PresenceReadError
    => /\ pc = "done"
       /\ status = ERR_NOT_FOUND
       /\ out_bridge = nullptr
       /\ br = nullptr
       /\ ~brObj.live
       /\ ~Called("new_bridge")
       /\ ~Called("read_config")

ReadErrorsNotFoundWitness ==
    /\ pc = "done"
    /\ \E i \in Events("read_header_type") : trace[i].st = ERR_IO
    /\ status = ERR_NOT_FOUND
    /\ out_bridge = nullptr

\* C18: every call of bus::probe is for segment loc.segment, the configured
\* secondary bus, device 0, function 0, with the bridge being probed as
\* parent; and when probe has returned after a successful configuration read
\* with the downstream condition holding, bus::probe was called exactly once.
ScanTarget ==
    /\ \A i \in Events("bus_probe") :
        /\ trace[i].arg = [segment |-> loc.segment, bus |-> hw.config.secondary_bus,
                           dev |-> 0, fn |-> 0]
        /\ trace[i].parent = br
        /\ br # nullptr
        /\ out_bridge = br
    /\ (pc = "done" /\ Succeeded("read_config") /\ ~NoDownstreamRange)
       => Cardinality(Events("bus_probe")) = 1

ScanTargetWitness ==
    /\ pc = "done"
    /\ loc.segment = 1
    /\ hw.config.secondary_bus = 2
    /\ Called("bus_probe")
    /\ Len(buses) = 1
    /\ buses[1].loc_.segment = 1
    /\ buses[1].loc_.bus = 2

\* C19: when probe has returned after reading the header type, the outcome is
\* that of the configuration read and the scan alone, the same for every
\* header type: the configuration was read; if that failed its error is
\* returned with a null bridge; otherwise the bridge is published with the
\* configuration read, bus::probe was called exactly when the downstream
\* condition holds, and the status is the scan's error or NO_ERROR.
HeaderTypeIndependent ==
    (pc = "done" /\ Succeeded("read_header_type"))
    => /\ header_type = hw.header_type
       /\ Called("read_config")
       /\ Failed("read_config")
          => /\ out_bridge = nullptr
             /\ \E i \in Events("read_config") : trace[i].st = status
       /\ ~Failed("read_config")
          => /\ out_bridge # nullptr
             /\ out_bridge = br
             /\ brObj.live
             /\ Config = hw.config
             /\ Called("bus_probe") <=> ~NoDownstreamRange
             /\ Failed("bus_probe") => \E i \in Events("bus_probe") : trace[i].st = status
             /\ ~Failed("bus_probe") => status = NO_ERROR

HeaderTypeIndependentWitness ==
    /\ pc = "done"
    /\ hw.header_type = 0
    /\ header_type = 0
    /\ status = NO_ERROR
    /\ out_bridge # nullptr
    /\ brObj.secondary_bus_ # nullptr

\* the calls to collaborator op in the call record t of one bridge::probe
EventsIn(t, op) == { i \in 1..Len(t) : t[i].op = op }

\* the reads of one bridge::probe: each made at most once, the vendor id
\* first, the header type after a vendor id read that succeeded, the
\* configuration after a header type read that succeeded, and bus::probe only
\* after a configuration read that succeeded
PreOrder(t) ==
    /\ Cardinality(EventsIn(t, "read_vendor_id")) <= 1
    /\ Cardinality(EventsIn(t, "read_header_type")) <= 1
    /\ Cardinality(EventsIn(t, "read_config")) <= 1
    /\ \A i \in EventsIn(t, "read_vendor_id") : i = 1
    /\ \A i \in EventsIn(t, "read_header_type") :
        i = 2 /\ t[1].op = "read_vendor_id" /\ t[1].st = NO_ERROR
    /\ \A i \in EventsIn(t, "read_config") :
        \E j \in EventsIn(t, "read_header_type") : j < i /\ t[j].st = NO_ERROR
    /\ \A i \in EventsIn(t, "bus_probe") :
        \E j \in EventsIn(t, "read_config") : j < i /\ t[j].st = NO_ERROR

\* C14: in the running bridge::probe and in every suspended one, at every
\* depth, the vendor id, header type and configuration are each read at most
\* once and in that order; a bridge::probe whose bus scan has begun has read
\* its own configuration successfully and holds it.
StrictPreOrder ==
    /\ PreOrder(trace)
    /\ pc = "scan" => Succeeded("read_config") /\ Config = hw.config
    /\ \A k \in 1..Len(stack) :
        stack[k].kind = "bridge"
        => /\ PreOrder(stack[k].trace)
           /\ \E j \in EventsIn(stack[k].trace, "read_config") :
                stack[k].trace[j].st = NO_ERROR
           /\ stack[k].brObj.live
           /\ stack[k].brObj.config_ = stack[k].hw.config

StrictPreOrderWitness ==
    /\ Depth = 3
    /\ pc = "done"
    /\ Succeeded("read_config")
    /\ loc.bus = 2
    /\ stack[1].loc.bus = 0
    /\ stack[3].loc.bus = 1

\* C20: the enumeration never stops short of a terminal state: either the
\* outermost bridge::probe has returned or a further step can be taken.
EnumerationTerminates == RecDone \/ ENABLED RecNext

====
